---- MODULE Spec2Model ----
(***************************************************************************)
(* The fluent Overview API client of src/index.js: the API constructor,    *)
(* the four selectors (docSet, doc, store, object), the eight request      *)
(* methods and the private _request that hands a request descriptor to a   *)
(* requester function.                                                     *)
(*                                                                         *)
(* Spec is one caller making any sequence of calls on one instance.        *)
(* SpecCallers is two callers running fluent chains (a selector, then an   *)
(* action) whose calls interleave, on one instance or on one each.         *)
(*                                                                         *)
(* JavaScript values are records [t, n, s]: t is the typeof-like tag, n    *)
(* the number of a "number", s the text of a "string" (or the label of an  *)
(* object or function).  Strings that get base64-encoded are sequences of  *)
(* ASCII codes.                                                            *)
(***************************************************************************)
EXTENDS Integers, Sequences, FiniteSets, TLC

VARIABLES client, ctor, last, peer, callers, sharing

vars == <<client, ctor, last, peer, callers, sharing>>

(* ---------------- bounds of the model ---------------------------------- *)

\* longest `fields` array passed to getDocuments
MaxFields == 2

(* ---------------- JavaScript values ------------------------------------ *)

Undefined == [t |-> "undefined", n |-> 0, s |-> ""]

Num(k) == [t |-> "number", n |-> k, s |-> ""]

Str(x) == [t |-> "string", n |-> 0, s |-> x]

Bool(b) == [t |-> "boolean", n |-> (IF b THEN 1 ELSE 0), s |-> ""]

Obj(label) == [t |-> "object", n |-> 0, s |-> label]

Fn(label) == [t |-> "function", n |-> 0, s |-> label]

\* the `fields` argument: an array of strings, or undefined
Arr(a) == [t |-> "array", a |-> a]

NoArr == [t |-> "undefined", a |-> <<>>]

\* ToBoolean: undefined, 0, "" and false are falsy, everything else truthy
Truthy(v) ==
  CASE v.t = "undefined" -> FALSE
    [] v.t = "number"    -> v.n /= 0
    [] v.t = "string"    -> v.s /= ""
    [] v.t = "boolean"   -> v.n /= 0
    [] OTHER             -> TRUE

\* a || b
Or(a, b) == IF Truthy(a) THEN a ELSE b

\* typeof v
TypeOf(v) == v.t

\* the string a value becomes when it is concatenated to a string
JSToString(v) ==
  CASE v.t = "undefined" -> "undefined"
    [] v.t = "number"    -> ToString(v.n)
    [] v.t = "string"    -> v.s
    [] v.t = "boolean"   -> (IF v.n /= 0 THEN "true" ELSE "false")
    [] OTHER             -> "[object Object]"

\* Array.prototype.join(sep)
RECURSIVE Join(_, _)
Join(a, sep) ==
  IF Len(a) = 0 THEN ""
  ELSE IF Len(a) = 1 THEN a[1]
  ELSE a[1] \o sep \o Join(Tail(a), sep)

(* ---------------- base64 ------------------------------------------------ *)

B64Chars ==
  << "A","B","C","D","E","F","G","H","I","J","K","L","M","N","O","P",
     "Q","R","S","T","U","V","W","X","Y","Z","a","b","c","d","e","f",
     "g","h","i","j","k","l","m","n","o","p","q","r","s","t","u","v",
     "w","x","y","z","0","1","2","3","4","5","6","7","8","9","+","/" >>

B64Char(k) == B64Chars[k + 1]

\* Buffer.prototype.toString('base64') of a sequence of bytes
RECURSIVE Base64(_)
Base64(b) ==
  IF Len(b) = 0 THEN ""
  ELSE IF Len(b) = 1 THEN
    B64Char(b[1] \div 4) \o B64Char((b[1] % 4) * 16) \o "=="
  ELSE IF Len(b) = 2 THEN
    B64Char(b[1] \div 4) \o B64Char((b[1] % 4) * 16 + b[2] \div 16)
      \o B64Char((b[2] % 16) * 4) \o "="
  ELSE
    B64Char(b[1] \div 4) \o B64Char((b[1] % 4) * 16 + b[2] \div 16)
      \o B64Char((b[2] % 16) * 4 + b[3] \div 64) \o B64Char(b[3] % 64)
      \o Base64(SubSeq(b, 4, Len(b)))

\* ':x-auth-token' as ASCII codes
AuthSuffix == <<58, 120, 45, 97, 117, 116, 104, 45, 116, 111, 107, 101, 110>>

(* ---------------- inputs ------------------------------------------------ *)

\* the (host, apiToken) pairs clients are constructed with: the test's
\* "testToken" (encoded with "==" padding) and "ab" (encoded without padding)
Accounts ==
  { [host     |-> "https://google.com",
     apiToken |-> <<116, 101, 115, 116, 84, 111, 107, 101, 110>>],
    [host     |-> "http://localhost:9000",
     apiToken |-> <<97, 98>>] }

fallbackRequester == Fn("fallbackRequester")

perCallRequester == Fn("requester")

\* the requester given to the constructor, or none
DefaultRequesters == { Undefined, fallbackRequester }

\* the requester given to one call, or none
CallRequesters == { Undefined, perCallRequester }

\* ids handed to docSet, to doc and to object
DocSetIds == { Undefined, Num(0), Num(5), Num(7) }

DocIds == { Undefined, Num(0), Num(9) }

StoreObjectIds == { Undefined, Num(0), Num(3) }

\* bodies handed to setState, createObject and updateStoreObject
States == { Undefined, Obj("{x:1}"), Num(0), Str(""), Bool(FALSE) }

\* the field names a caller asks for, in the order it lists them
FieldNames == << "a", "b", "blargh", "title", "url" >>

\* `fields`: omitted, or the first k names for k up to MaxFields
FieldArgs ==
  { NoArr } \cup { Arr(SubSeq(FieldNames, 1, k)) : k \in 0..MaxFields }

Sorts == { Undefined, Str("date"), Str("") }

(* ---------------- what a requester does when it is called --------------- *)

NoError == [name |-> "", message |-> ""]

Returned(v) == [threw |-> FALSE, value |-> v, error |-> NoError]

Threw(name, message) ==
  [threw |-> TRUE, value |-> Undefined,
   error |-> [name |-> name, message |-> message]]

\* a requester returns its result (a stream, say) or throws
RequesterOutcomes ==
  { Returned(Obj("stream")), Threw("Error", "connect ECONNREFUSED") }

\* the result of a method call: the client afterwards, what the call returned
\* or threw, and the requester invocations it made
Result(self, outcome, invoked) ==
  [self |-> self, outcome |-> outcome, invoked |-> invoked]

(* ---------------- the API "class" --------------------------------------- *)

\* the reference to the constructed instance
this == Obj("API")

API(host, apiToken, requester) ==
  [host            |-> host,
   requester       |-> requester,
   apiTokenEncoded |-> Base64(apiToken \o AuthSuffix),
   mode            |-> Undefined,
   docSetId        |-> Undefined,
   docId           |-> Undefined,
   storeObjectId   |-> Undefined]

\* docSet without its `return this`
docSetNoReturn(self, docSetId) ==
  Result([self EXCEPT !.mode = Str("doc"), !.docSetId = docSetId],
         Returned(Undefined), <<>>)

docSet(self, docSetId) ==
  Result([self EXCEPT !.mode = Str("doc"), !.docSetId = docSetId],
         Returned(this), <<>>)

doc(self, docId) ==
  IF ~Truthy(self.docSetId) THEN
    Result(self,
           Threw("Error",
             "You must specify a doc set id before picking out a document."),
           <<>>)
  ELSE
    Result([self EXCEPT !.mode = Str("doc"), !.docId = docId],
           Returned(this), <<>>)

store(self) ==
  Result([self EXCEPT !.mode = Str("store")], Returned(this), <<>>)

object(self, storeObjectId) ==
  Result([self EXCEPT !.mode = Str("store"), !.storeObjectId = storeObjectId],
         Returned(this), <<>>)

\* _request building the url without the '/api/v1' prefix
_requestNoPrefix(self, path, requester, method, body, out) ==
  LET resolved == Or(requester, self.requester)
      auth     == "Authorization" :> ("Basic " \o self.apiTokenEncoded)
      headers  == IF Truthy(body)
                  THEN auth @@ ("Content-Type" :> "application/json")
                  ELSE auth
      desc     == [url     |-> self.host \o path,
                   body    |-> body,
                   method  |-> JSToString(Or(method, Str("GET"))),
                   headers |-> headers]
  IN  IF TypeOf(resolved) /= "function" THEN
        Result(self,
               Threw("Error",
                 "You must provide a requester function when "
                   \o "constructing the class or making the request."),
               <<>>)
      ELSE
        Result(self, out, << [requester |-> resolved, request |-> desc] >>)

\* _request(path, requester, method, body); `out` is what the requester
\* does when it is called
_request(self, path, requester, method, body, out) ==
  LET resolved == Or(requester, self.requester)
      auth     == "Authorization" :> ("Basic " \o self.apiTokenEncoded)
      headers  == IF Truthy(body)
                  THEN auth @@ ("Content-Type" :> "application/json")
                  ELSE auth
      desc     == [url     |-> self.host \o "/api/v1" \o path,
                   body    |-> body,
                   method  |-> JSToString(Or(method, Str("GET"))),
                   headers |-> headers]
  IN  IF TypeOf(resolved) /= "function" THEN
        Result(self,
               Threw("Error",
                 "You must provide a requester function when "
                   \o "constructing the class or making the request."),
               <<>>)
      ELSE
        Result(self, out, << [requester |-> resolved, request |-> desc] >>)

\* getDocuments addressing the selected document instead of the document set
getDocumentsOfDocId(self, fields, sort, requester, out) ==
  IF ~Truthy(self.docSetId) THEN
    Result(self,
           Threw("Error",
             "Must call docSet() with a set id before using this method."),
           <<>>)
  ELSE
    LET sortParam   == IF Truthy(sort) THEN "&sort=" \o JSToString(sort)
                       ELSE ""
        fieldsParam == "&fields="
                         \o Join(IF fields.t = "array" THEN fields.a
                                 ELSE <<"id", "text">>, ",")
        path        == "/document-sets/" \o JSToString(self.docId)
                         \o "/documents?stream=true" \o fieldsParam
                         \o sortParam
    IN  _request(self, path, requester, Undefined, Undefined, out)

getIds(self, requester, out) ==
  IF ~Truthy(self.docSetId) THEN
    Result(self,
           Threw("Error",
             "Must call docSet() with a set id before using this method."),
           <<>>)
  ELSE
    _request(self,
             "/document-sets/" \o JSToString(self.docSetId)
               \o "/documents?fields=id",
             requester, Undefined, Undefined, out)

getDocuments(self, fields, sort, requester, out) ==
  IF ~Truthy(self.docSetId) THEN
    Result(self,
           Threw("Error",
             "Must call docSet() with a set id before using this method."),
           <<>>)
  ELSE
    LET sortParam   == IF Truthy(sort) THEN "&sort=" \o JSToString(sort)
                       ELSE ""
        fieldsParam == "&fields="
                         \o Join(IF fields.t = "array" THEN fields.a
                                 ELSE <<"id", "text">>, ",")
        path        == "/document-sets/" \o JSToString(self.docSetId)
                         \o "/documents?stream=true" \o fieldsParam
                         \o sortParam
    IN  _request(self, path, requester, Undefined, Undefined, out)

\* get(requester): the "doc" branch reads the undeclared identifier docId
\* (a ReferenceError) when a document is selected, and otherwise calls
\* this.getAllDocuments, which the prototype does not define (a TypeError)
get(self, requester, out) ==
  IF self.mode = Str("doc") THEN
    IF Truthy(self.docId) THEN
      Result(self, Threw("ReferenceError", "docId is not defined"), <<>>)
    ELSE
      Result(self,
             Threw("TypeError", "this.getAllDocuments is not a function"),
             <<>>)
  ELSE IF self.mode = Str("store") THEN
    IF Truthy(self.storeObjectId) THEN
      _request(self, "/store/objects/" \o JSToString(self.storeObjectId),
               requester, Undefined, Undefined, out)
    ELSE
      Result(self,
             Threw("Error",
               "Must specify a specific store object to return first"),
             <<>>)
  ELSE
    Result(self,
           Threw("Error",
             "Must specify a document set, document, or store object first."),
           <<>>)

getState(self, requester, out) ==
  IF self.mode /= Str("store") THEN
    Result(self,
           Threw("Error", "You must be operating on the store to set state."),
           <<>>)
  ELSE
    _request(self, "/store/state", requester, Undefined, Undefined, out)

\* setState assigning the mode where it should compare it
setStateAssignsMode(self, state, requester, out) ==
  _request([self EXCEPT !.mode = Str("store")], "/store/state", requester,
           Str("PUT"), state, out)

setState(self, state, requester, out) ==
  IF self.mode /= Str("store") THEN
    Result(self,
           Threw("Error", "You must be operating on the store to set state."),
           <<>>)
  ELSE
    _request(self, "/store/state", requester, Str("PUT"), state, out)

\* getObjects without the check of the mode
getObjectsUnchecked(self, requester, out) ==
  _request(self, "/store/objects", requester, Undefined, Undefined, out)

getObjects(self, requester, out) ==
  IF self.mode /= Str("store") THEN
    Result(self,
           Threw("Error",
             "You must be operating on the store to get its objects."),
           <<>>)
  ELSE
    _request(self, "/store/objects", requester, Undefined, Undefined, out)

\* createObject refusing to work outside store mode, before any dispatch
createObjectStoreOnly(self, state, requester, out) ==
  IF self.mode /= Str("store") THEN
    Result(self,
           Threw("Error", "You must be operating on the store to set state."),
           <<>>)
  ELSE
    _request(self, "/store/objects", requester, Str("POST"), state, out)

createObject(self, state, requester, out) ==
  _request(self, "/store/objects", requester, Str("POST"), state, out)

\* updateStoreObject checking the store object id after the request is made
updateStoreObjectLateCheck(self, state, requester, out) ==
  LET r == _request(self,
                    "/store/objects/" \o JSToString(self.storeObjectId),
                    requester, Str("PUT"), state, out)
  IN  IF ~Truthy(self.storeObjectId) /\ ~r.outcome.threw THEN
        Result(self,
               Threw("Error",
                 "You must specify a store object id before calling "
                   \o "this method."),
               r.invoked)
      ELSE r

updateStoreObject(self, state, requester, out) ==
  IF ~Truthy(self.storeObjectId) THEN
    Result(self,
           Threw("Error",
             "You must specify a store object id before calling this method."),
           <<>>)
  ELSE
    _request(self, "/store/objects/" \o JSToString(self.storeObjectId),
             requester, Str("PUT"), state, out)

(* ---------------- the state machine ------------------------------------- *)

\* the arguments of a call; the ones a method does not take stay at these
NoArgs ==
  [id |-> Undefined, fields |-> NoArr, sort |-> Undefined,
   state |-> Undefined, requester |-> Undefined]

\* the record of the latest call: its name and arguments, and what came of it
Call(op, args, r) ==
  [op |-> op, args |-> args, outcome |-> r.outcome, invoked |-> r.invoked]

\* the two callers of the fluent interface
Callers == { "A", "B" }

\* the document set each caller works on
Wanted(c) == IF c = "A" THEN Num(5) ELSE Num(7)

\* a caller between chains: nothing selected, nothing requested
Idle ==
  [pc |-> "idle", chain |-> "none",
   result |-> [outcome |-> Returned(Undefined), invoked |-> <<>>]]

Init ==
  /\ \E account \in Accounts, requester \in DefaultRequesters :
       /\ ctor = [host |-> account.host, apiToken |-> account.apiToken,
                  requester |-> requester]
       /\ client = API(account.host, account.apiToken, requester)
  /\ last = Call("new", NoArgs, Result(client, Returned(this), <<>>))
  /\ peer = client
  /\ callers = [c \in Callers |-> Idle]
  /\ sharing = "single"

\* a call ends: the client is what the method left, `last` records the call
Finish(op, args, r) ==
  /\ client' = r.self
  /\ last' = Call(op, args, r)
  /\ UNCHANGED <<ctor, peer, callers, sharing>>

CallDocSet ==
  \E id \in DocSetIds :
    Finish("docSet", [NoArgs EXCEPT !.id = id], docSet(client, id))

CallDoc ==
  \E id \in DocIds :
    Finish("doc", [NoArgs EXCEPT !.id = id], doc(client, id))

CallStore == Finish("store", NoArgs, store(client))

CallObject ==
  \E id \in StoreObjectIds :
    Finish("object", [NoArgs EXCEPT !.id = id], object(client, id))

CallGetIds ==
  \E requester \in CallRequesters, out \in RequesterOutcomes :
    Finish("getIds", [NoArgs EXCEPT !.requester = requester],
           getIds(client, requester, out))

CallGetDocuments ==
  \E fields \in FieldArgs, sort \in Sorts,
     requester \in CallRequesters, out \in RequesterOutcomes :
    Finish("getDocuments",
           [NoArgs EXCEPT !.fields = fields, !.sort = sort,
                          !.requester = requester],
           getDocuments(client, fields, sort, requester, out))

CallGet ==
  \E requester \in CallRequesters, out \in RequesterOutcomes :
    Finish("get", [NoArgs EXCEPT !.requester = requester],
           get(client, requester, out))

CallGetState ==
  \E requester \in CallRequesters, out \in RequesterOutcomes :
    Finish("getState", [NoArgs EXCEPT !.requester = requester],
           getState(client, requester, out))

CallSetState ==
  \E state \in States, requester \in CallRequesters,
     out \in RequesterOutcomes :
    Finish("setState",
           [NoArgs EXCEPT !.state = state, !.requester = requester],
           setState(client, state, requester, out))

CallGetObjects ==
  \E requester \in CallRequesters, out \in RequesterOutcomes :
    Finish("getObjects", [NoArgs EXCEPT !.requester = requester],
           getObjects(client, requester, out))

CallCreateObject ==
  \E state \in States, requester \in CallRequesters,
     out \in RequesterOutcomes :
    Finish("createObject",
           [NoArgs EXCEPT !.state = state, !.requester = requester],
           createObject(client, state, requester, out))

CallUpdateStoreObject ==
  \E state \in States, requester \in CallRequesters,
     out \in RequesterOutcomes :
    Finish("updateStoreObject",
           [NoArgs EXCEPT !.state = state, !.requester = requester],
           updateStoreObject(client, state, requester, out))

Next ==
  \/ CallDocSet
  \/ CallDoc
  \/ CallStore
  \/ CallObject
  \/ CallGetIds
  \/ CallGetDocuments
  \/ CallGet
  \/ CallGetState
  \/ CallSetState
  \/ CallGetObjects
  \/ CallCreateObject
  \/ CallUpdateStoreObject

Spec == Init /\ [][Next]_vars

(* ---------------- two callers ------------------------------------------- *)

\* the callers share one instance and interleave freely ("shared"), share it
\* but run their chains one after the other ("serialized"), or have an
\* instance each ("own")
Sharings == { "shared", "serialized", "own" }

\* the chains of the tests: docSet(id).getDocuments(["blargh"], undefined,
\* requester) and store().getState(requester)
Chains == { "documents", "state" }

UsesPeer(c) == sharing = "own" /\ c = "B"

InstanceOf(c) == IF UsesPeer(c) THEN peer ELSE client

\* caller c's call leaves its instance as r.self
Mutate(c, r) ==
  IF UsesPeer(c)
  THEN peer' = r.self /\ UNCHANGED client
  ELSE client' = r.self /\ UNCHANGED peer

InitCallers ==
  /\ \E account \in Accounts :
       /\ ctor = [host |-> account.host, apiToken |-> account.apiToken,
                  requester |-> fallbackRequester]
       /\ client = API(account.host, account.apiToken, fallbackRequester)
  /\ last = Call("new", NoArgs, Result(client, Returned(this), <<>>))
  /\ peer = client
  /\ callers = [c \in Callers |-> Idle]
  /\ sharing \in Sharings

\* the first call of a chain: the selector
ChainSelect(c) ==
  /\ callers[c].pc \in { "idle", "done" }
  /\ sharing = "serialized" =>
       \A d \in Callers \ {c} : callers[d].pc /= "selected"
  /\ \E chain \in Chains :
       LET r == IF chain = "documents"
                THEN docSet(InstanceOf(c), Wanted(c))
                ELSE store(InstanceOf(c))
       IN  /\ Mutate(c, r)
           /\ callers' = [callers EXCEPT
                ![c] = [pc |-> "selected", chain |-> chain,
                        result |-> Idle.result]]
  /\ UNCHANGED <<ctor, last, sharing>>

\* the second call of a chain: the action, on whatever the instance now holds
ChainAct(c) ==
  /\ callers[c].pc = "selected"
  /\ \E out \in RequesterOutcomes :
       LET r == IF callers[c].chain = "documents"
                THEN getDocuments(InstanceOf(c), Arr(<<"blargh">>),
                                  Undefined, perCallRequester, out)
                ELSE getState(InstanceOf(c), perCallRequester, out)
       IN  /\ Mutate(c, r)
           /\ callers' = [callers EXCEPT
                ![c] = [pc |-> "done", chain |-> callers[c].chain,
                        result |-> [outcome |-> r.outcome,
                                    invoked |-> r.invoked]]]
  /\ UNCHANGED <<ctor, last, sharing>>

NextCallers ==
  \/ \E c \in Callers : ChainSelect(c)
  \/ \E c \in Callers : ChainAct(c)

SpecCallers == InitCallers /\ [][NextCallers]_vars

(* ---------------- vocabulary of the properties --------------------------- *)

SelectorOps == { "docSet", "doc", "store", "object" }

ActionOps ==
  { "getIds", "getDocuments", "get", "getState", "setState", "getObjects",
    "createObject", "updateStoreObject" }

\* the errors of a missing addressing state
PreconditionMessages ==
  { "You must specify a doc set id before picking out a document.",
    "Must call docSet() with a set id before using this method.",
    "Must specify a specific store object to return first",
    "Must specify a document set, document, or store object first.",
    "You must be operating on the store to set state.",
    "You must be operating on the store to get its objects.",
    "You must specify a store object id before calling this method." }

\* the error of a missing requester
ConfigurationMessage ==
  "You must provide a requester function when "
    \o "constructing the class or making the request."

IsPreconditionError(o) ==
  o.threw /\ o.error.name = "Error" /\ o.error.message \in PreconditionMessages

IsConfigurationError(o) ==
  o.threw /\ o.error.name = "Error" /\ o.error.message = ConfigurationMessage

\* an identifier is set once it holds any value
IsSet(v) == v /= Undefined

\* neither the constructor nor the latest call was given a requester
NoExecutor == ctor.requester = Undefined /\ last.args.requester = Undefined

ExecutorAvailable == ~NoExecutor

\* base64(token + ":x-auth-token"), from a reference encoder
Credential(apiToken) ==
  CASE apiToken = <<116, 101, 115, 116, 84, 111, 107, 101, 110>>
         -> "dGVzdFRva2VuOngtYXV0aC10b2tlbg=="
    [] apiToken = <<97, 98>>
         -> "YWI6eC1hdXRoLXRva2Vu"

\* the path of the latest call by the table of the HTTP surface
ExpectedPath ==
  CASE last.op = "getIds" ->
         "/document-sets/" \o JSToString(client.docSetId)
           \o "/documents?fields=id"
    [] last.op = "getDocuments" ->
         "/document-sets/" \o JSToString(client.docSetId)
           \o "/documents?stream=true&fields="
           \o (IF last.args.fields = NoArr THEN "id,text"
               ELSE Join(last.args.fields.a, ","))
           \o (IF Truthy(last.args.sort)
               THEN "&sort=" \o JSToString(last.args.sort) ELSE "")
    [] last.op = "get" /\ client.mode = Str("doc") /\ Truthy(client.docId) ->
         "/document-sets/" \o JSToString(client.docSetId)
           \o "/documents/" \o JSToString(client.docId)
    [] last.op = "get" /\ client.mode = Str("doc") /\ ~Truthy(client.docId) ->
         "/document-sets/" \o JSToString(client.docSetId)
           \o "/documents?stream=true&fields=id,text"
    [] last.op = "get" /\ client.mode = Str("store") ->
         "/store/objects/" \o JSToString(client.storeObjectId)
    [] last.op \in { "getState", "setState" } -> "/store/state"
    [] last.op \in { "getObjects", "createObject" } -> "/store/objects"
    [] last.op = "updateStoreObject" ->
         "/store/objects/" \o JSToString(client.storeObjectId)
    [] OTHER -> ""

ExpectedMethod ==
  CASE last.op \in { "setState", "updateStoreObject" } -> "PUT"
    [] last.op = "createObject" -> "POST"
    [] OTHER -> "GET"

\* the latest call made exactly one request, with this method and this path
IssuedOnce(method, path) ==
  /\ Len(last.invoked) = 1
  /\ last.invoked[1].request.method = method
  /\ last.invoked[1].request.url = ctor.host \o "/api/v1" \o path

(* ---------------- C1 ------------------------------------------------------ *)

\* C1: every request descriptor handed to a requester has
\* url = host + "/api/v1" + path and
\* headers.Authorization = "Basic " + base64(token + ":x-auth-token"),
\* whatever the mode, the selected ids and the path.
C1_UrlAndAuthorization ==
  \A i \in 1..Len(last.invoked) :
    /\ last.invoked[i].request.url = ctor.host \o "/api/v1" \o ExpectedPath
    /\ "Authorization" \in DOMAIN last.invoked[i].request.headers
    /\ last.invoked[i].request.headers["Authorization"]
         = "Basic " \o Credential(ctor.apiToken)

\* a request for documents went out for the test's client
C1_Witness ==
  /\ last.op = "getDocuments"
  /\ Len(last.invoked) = 1
  /\ ctor.host = "https://google.com"
  /\ client.storeObjectId = Num(3)

(* ---------------- C2 ------------------------------------------------------ *)

\* C2 as claimed: an action called with neither a default nor a per-call
\* requester fails with the ConfigurationError, in every addressing state.
C2_AlwaysConfigurationError ==
  (last.op \in ActionOps /\ NoExecutor) => IsConfigurationError(last.outcome)

\* the latest action got past its own checks to the request dispatch
ReachesDispatch ==
  CASE last.op \in { "getIds", "getDocuments" } -> Truthy(client.docSetId)
    [] last.op = "get" ->
         client.mode = Str("store") /\ Truthy(client.storeObjectId)
    [] last.op \in { "getState", "setState", "getObjects" } ->
         client.mode = Str("store")
    [] last.op = "createObject" -> TRUE
    [] last.op = "updateStoreObject" -> Truthy(client.storeObjectId)
    [] OTHER -> FALSE

\* C2 as amended: an action called with neither a default nor a per-call
\* requester always fails and invokes nothing; the failure is the
\* ConfigurationError exactly when the action gets to the request dispatch
\* (always for createObject), and otherwise the error raised before it.
C2_FailsWithoutExecutor ==
  (last.op \in ActionOps /\ NoExecutor) =>
    /\ last.outcome.threw
    /\ last.invoked = <<>>
    /\ IsConfigurationError(last.outcome) <=> ReachesDispatch

\* createObject failed for want of a requester, outside store mode
C2_Witness ==
  /\ last.op = "createObject"
  /\ NoExecutor
  /\ client.mode = Str("doc")
  /\ IsConfigurationError(last.outcome)

(* ---------------- C3 ------------------------------------------------------ *)

\* C3: a call that fails with a PreconditionError or the ConfigurationError
\* has invoked no requester; a selector invokes none; an action ends with
\* exactly one invocation, or with an error and no invocation.
C3_ErrorsBeforeAnyInvocation ==
  /\ (IsPreconditionError(last.outcome) \/ IsConfigurationError(last.outcome))
       => last.invoked = <<>>
  /\ last.op \in SelectorOps => last.invoked = <<>>
  /\ last.op \in ActionOps =>
       \/ Len(last.invoked) = 1
       \/ last.outcome.threw /\ Len(last.invoked) = 0

\* updateStoreObject was refused although a requester was at hand
C3_Witness ==
  /\ last.op = "updateStoreObject"
  /\ ExecutorAvailable
  /\ IsPreconditionError(last.outcome)
  /\ last.invoked = <<>>

(* ---------------- C4 ------------------------------------------------------ *)

\* C4: doc(id) fails with a PreconditionError whenever the document set id
\* is not set; when it is set, doc(id) succeeds and sets mode = document and
\* documentId = id.
C4_DocNeedsDocSet ==
  last.op = "doc" =>
    IF IsSet(client.docSetId)
    THEN /\ ~last.outcome.threw
         /\ client.mode = Str("doc")
         /\ client.docId = last.args.id
    ELSE IsPreconditionError(last.outcome)

(* ---------------- C5 ------------------------------------------------------ *)

\* C5: getState, setState and getObjects fail with a PreconditionError while
\* the mode is unset or document; in store mode, given a requester, they
\* issue GET /store/state, PUT /store/state and GET /store/objects.
C5_StoreActionsNeedStoreMode ==
  last.op \in { "getState", "setState", "getObjects" } =>
    /\ client.mode /= Str("store") =>
         IsPreconditionError(last.outcome) /\ last.invoked = <<>>
    /\ (client.mode = Str("store") /\ ExecutorAvailable) =>
         CASE last.op = "getState"   -> IssuedOnce("GET", "/store/state")
           [] last.op = "setState"   -> IssuedOnce("PUT", "/store/state")
           [] last.op = "getObjects" -> IssuedOnce("GET", "/store/objects")

\* getObjects was refused in document mode
C5_Witness ==
  /\ last.op = "getObjects"
  /\ client.mode = Str("doc")
  /\ ExecutorAvailable
  /\ IsPreconditionError(last.outcome)

(* ---------------- C6 ------------------------------------------------------ *)

\* C6: a selector that does not fail returns the instance it was called on,
\* and docSet(5) followed by doc(9), from any state, ends with
\* documentSetId = 5, documentId = 9 and mode = document.
C6_FluentChain ==
  /\ [](last.op \in SelectorOps /\ ~last.outcome.threw
          => last.outcome.value = this)
  /\ [][ ( /\ last.op = "docSet" /\ last.args.id = Num(5)
           /\ last'.op = "doc" /\ last'.args.id = Num(9) )
         => ( /\ last'.outcome = Returned(this)
              /\ client'.docSetId = Num(5)
              /\ client'.docId = Num(9)
              /\ client'.mode = Str("doc") ) ]_vars

\* docSet(5) returned after a store object had been selected
C6_Witness ==
  /\ last.op = "docSet"
  /\ last.args.id = Num(5)
  /\ client.storeObjectId = Num(3)
  /\ last.outcome = Returned(this)

(* ---------------- C7 ------------------------------------------------------ *)

\* C7: docSet(id) clears any previously selected document: after it returns,
\* documentId is unset.
C7_DocSetClearsDocId ==
  last.op = "docSet" => client.docId = Undefined

(* ---------------- C8 ------------------------------------------------------ *)

\* C8: store() clears the selected store object: after it returns,
\* storeObjectId is unset.
C8_StoreClearsStoreObjectId ==
  last.op = "store" => client.storeObjectId = Undefined

(* ---------------- C9 ------------------------------------------------------ *)

\* C9: in document mode with a document selected, get() invokes the requester
\* exactly once, with GET host/api/v1/document-sets/{docSetId}/documents/{docId}.
C9_GetSingleDocument ==
  ( /\ last.op = "get"
    /\ client.mode = Str("doc")
    /\ Truthy(client.docId)
    /\ ExecutorAvailable )
  => IssuedOnce("GET",
                "/document-sets/" \o JSToString(client.docSetId)
                  \o "/documents/" \o JSToString(client.docId))

(* ---------------- C10 ----------------------------------------------------- *)

\* C10: in document mode with no document selected, get(requester) does what
\* getDocuments(undefined, undefined, requester) does: the same request
\* descriptor goes to the requester and the same result comes back.
C10_GetIsGetDocuments ==
  ( /\ last.op = "get"
    /\ client.mode = Str("doc")
    /\ ~Truthy(client.docId) )
  => \E out \in RequesterOutcomes :
       LET r == getDocuments(client, NoArr, Undefined,
                             last.args.requester, out)
       IN  last.outcome = r.outcome /\ last.invoked = r.invoked

(* ---------------- C11 ----------------------------------------------------- *)

\* C11: get() fails with a PreconditionError while the mode is unset; in
\* store mode it fails with a PreconditionError when no store object id is
\* set and otherwise issues GET /store/objects/{storeObjectId}, whatever ids
\* the document mode left behind.
C11_GetByMode ==
  last.op = "get" =>
    /\ client.mode = Undefined => IsPreconditionError(last.outcome)
    /\ (client.mode = Str("store") /\ ~IsSet(client.storeObjectId))
         => IsPreconditionError(last.outcome)
    /\ ( /\ client.mode = Str("store")
         /\ IsSet(client.storeObjectId)
         /\ ExecutorAvailable )
         => IssuedOnce("GET",
                       "/store/objects/" \o JSToString(client.storeObjectId))

(* ---------------- C12 ----------------------------------------------------- *)

\* the latest call was given a body
BodyGiven ==
  /\ last.op \in { "setState", "createObject", "updateStoreObject" }
  /\ IsSet(last.args.state)

\* C12: a request descriptor carries "Content-Type: application/json" if and
\* only if a body was given to the action, and then body = state, for every
\* state value (0, "" and false included).
C12_ContentTypeIffBody ==
  \A i \in 1..Len(last.invoked) :
    LET request == last.invoked[i].request
    IN  /\ ("Content-Type" \in DOMAIN request.headers) <=> BodyGiven
        /\ BodyGiven => /\ request.body = last.args.state
                        /\ request.headers["Content-Type"] = "application/json"

(* ---------------- C13 ----------------------------------------------------- *)

\* C13: getDocuments(fields, sort) with a document set id set issues
\* GET /document-sets/{id}/documents?stream=true&fields={csv}[&sort={sort}],
\* the fields defaulting to id,text and the sort segment present exactly when
\* a sort is given; with no document set id it fails with a PreconditionError.
C13_GetDocumentsPath ==
  last.op = "getDocuments" =>
    IF IsSet(client.docSetId)
    THEN ExecutorAvailable =>
           IssuedOnce("GET",
             "/document-sets/" \o JSToString(client.docSetId)
               \o "/documents?stream=true&fields="
               \o (IF last.args.fields = NoArr THEN "id,text"
                   ELSE Join(last.args.fields.a, ","))
               \o (IF IsSet(last.args.sort)
                   THEN "&sort=" \o JSToString(last.args.sort) ELSE ""))
    ELSE IsPreconditionError(last.outcome)

(* ---------------- C14 ----------------------------------------------------- *)

\* the addressing state the latest action asks for is there, with ids that
\* are neither missing nor empty
PreconditionsHold ==
  CASE last.op \in { "getIds", "getDocuments" } -> Truthy(client.docSetId)
    [] last.op = "get" ->
         \/ client.mode = Str("doc") /\ Truthy(client.docSetId)
         \/ client.mode = Str("store") /\ Truthy(client.storeObjectId)
    [] last.op \in { "getState", "setState", "getObjects" } ->
         client.mode = Str("store")
    [] last.op = "createObject" -> TRUE
    [] last.op = "updateStoreObject" -> Truthy(client.storeObjectId)
    [] OTHER -> FALSE

\* C14: an action whose preconditions hold invokes exactly one requester,
\* once: the per-call one when one is passed, else the default one; and it
\* ends as that requester ended.
C14_OneExecutorOnce ==
  (last.op \in ActionOps /\ PreconditionsHold /\ ExecutorAvailable) =>
    /\ Len(last.invoked) = 1
    /\ last.invoked[1].requester
         = (IF last.args.requester /= Undefined THEN last.args.requester
            ELSE ctor.requester)
    /\ last.outcome \in RequesterOutcomes

(* ---------------- C15 ----------------------------------------------------- *)

\* C15: createObject(state) does not look at the addressing state: with a
\* requester at hand it issues POST /store/objects with body = state in
\* every mode.
C15_CreateObjectAnywhere ==
  (last.op = "createObject" /\ ExecutorAvailable) =>
    /\ IssuedOnce("POST", "/store/objects")
    /\ last.invoked[1].request.body = last.args.state
    /\ last.outcome \in RequesterOutcomes

\* an object was created on a client that never selected anything
C15_Witness ==
  /\ last.op = "createObject"
  /\ client.mode = Undefined
  /\ last.args.state = Obj("{x:1}")
  /\ Len(last.invoked) = 1

(* ---------------- C16 ----------------------------------------------------- *)

\* C16: getIds and getDocuments succeed only in document mode, and
\* updateStoreObject only in store mode: in any other mode they fail with a
\* PreconditionError.
C16_ModeDecidesValidity ==
  /\ (last.op \in { "getIds", "getDocuments" } /\ client.mode /= Str("doc"))
       => IsPreconditionError(last.outcome)
  /\ (last.op = "updateStoreObject" /\ client.mode /= Str("store"))
       => IsPreconditionError(last.outcome)

(* ---------------- C17 ----------------------------------------------------- *)

\* C17: in every reachable state, a set documentId implies a set
\* documentSetId.
C17_DocIdImpliesDocSetId ==
  IsSet(client.docId) => IsSet(client.docSetId)

(* ---------------- C18 ----------------------------------------------------- *)

\* C18: no state is terminal: docSet, store and object never fail, and an
\* action retried right after the selection it requires (docSet(id) for get,
\* getDocuments and getIds; store() for getState, setState and getObjects;
\* object(id) for updateStoreObject and get) invokes the requester.
C18_Recoverable ==
  [][ /\ last'.op \in { "docSet", "store", "object" } => ~last'.outcome.threw
      /\ ( /\ \/ ctor.requester /= Undefined
              \/ last'.args.requester /= Undefined
           /\ \/ /\ last.op = "docSet" /\ Truthy(last.args.id)
                 /\ last'.op \in { "get", "getDocuments", "getIds" }
              \/ /\ last.op = "store"
                 /\ last'.op \in { "getState", "setState", "getObjects" }
              \/ /\ last.op = "object" /\ Truthy(last.args.id)
                 /\ last'.op \in { "updateStoreObject", "get" } )
         => Len(last'.invoked) = 1 ]_vars

(* ---------------- C19 ----------------------------------------------------- *)

\* caller c's chain ended with the one request it was after
OwnRequest(c) ==
  /\ Len(callers[c].result.invoked) = 1
  /\ callers[c].result.invoked[1].request.url
       = ctor.host \o "/api/v1"
           \o (IF callers[c].chain = "documents"
               THEN "/document-sets/" \o JSToString(Wanted(c))
                      \o "/documents?stream=true&fields=blargh"
               ELSE "/store/state")

\* C19: when each caller has its own instance, or the chains on a shared
\* instance are serialized, every chain issues the request for what its own
\* caller selected; on a shared instance with interleaved chains this is
\* lost (C19_Witness is the race).
C19_OwnSelectionUnlessInterleaved ==
  sharing \in { "own", "serialized" } =>
    \A c \in Callers : callers[c].pc = "done" => OwnRequest(c)

\* the race: A selected set 5 and asked for its documents, B's docSet(7) came
\* in between, and A's request went out for set 7
C19_Witness ==
  /\ sharing = "shared"
  /\ callers["A"].pc = "done"
  /\ callers["A"].chain = "documents"
  /\ Len(callers["A"].result.invoked) = 1
  /\ callers["A"].result.invoked[1].request.url
       = ctor.host \o "/api/v1/document-sets/7/documents"
           \o "?stream=true&fields=blargh"

(* ---------------- C20 ----------------------------------------------------- *)

\* C20: an action, whether it returns or fails, leaves the client as it was;
\* no call at all changes the host, the encoded credential or the default
\* requester.
C20_ActionsReadOnly ==
  [][ /\ last'.op \in ActionOps => client' = client
      /\ client'.host = client.host
      /\ client'.apiTokenEncoded = client.apiTokenEncoded
      /\ client'.requester = client.requester ]_vars

\* a store object was updated while a document was still selected
C20_Witness ==
  /\ last.op = "updateStoreObject"
  /\ Len(last.invoked) = 1
  /\ client.docId = Num(9)
  /\ client.storeObjectId = Num(3)

====
